---- MODULE Spec2Model ----
(***************************************************************************)
(* Model of simple-api-lib: the Application lifecycle container            *)
(* (use / set / run), the File schema's serialisation transform            *)
(* (Utils.toPrettyObject) and BaseController.build().                      *)
(*                                                                         *)
(* JavaScript runs each call to completion on one thread, so use(), set()  *)
(* and run() are one step each; the continuation of an asynchronous entry  *)
(* point is a later step of the event loop (Resume).  Entry points are     *)
(* taken not to call back into the container.                              *)
(***************************************************************************)
EXTENDS Integers, Sequences, FiniteSets, TLC

\* ---- bounds -------------------------------------------------------------
MaxOps == 4          \* use/set/run calls made on one application
MaxRouters == 3      \* build() calls made on one controller

\* ---- values -------------------------------------------------------------
Errors == {"E1", "E2"}                 \* error values a module may throw
Ok == "ok"                             \* an operation that returned normally

\* A module class as the container sees it: what its constructor does and
\* what its entry point default() does (returns, returns a pending promise,
\* or throws synchronously).
ModuleClasses ==
    [ctor : {Ok}, entry : {"sync", "async"} \cup Errors]
        \cup [ctor : Errors, entry : {"sync"}]

NoClass == [ctor |-> "none", entry |-> "none"]

VARIABLES
    initModules,    \* Application.initModules
    modules,        \* Application.modules
    nextId,         \* identity of the next constructed module instance
    log,            \* entry-point events, in the order they happened
    pending,        \* continuations of asynchronous entry points not yet run
    runCount,       \* number of run() calls made
    nOps,           \* number of use/set/run calls made
    last,           \* the last use/set/run call: input, outcome, state before
    doc,            \* a File document (its stored fields)
    out,            \* the last serialisation of doc
    path,           \* BaseController.path: <<>> when unset, <<p>> when set
    routers,        \* the routing objects that exist, indexed by identity
    built,          \* identity of the routing object the last build() returned
    nBuilds         \* number of build() calls made

appVars == <<initModules, modules, nextId, log, pending, runCount, nOps, last>>
fileVars == <<doc, out>>
ctlVars == <<path, routers, built, nBuilds>>
vars == <<appVars, fileVars, ctlVars>>

\* ---- helpers ------------------------------------------------------------
Ids(ms) == [i \in 1..Len(ms) |-> ms[i].id]
Range(s) == {s[i] : i \in 1..Len(s)}

StartEvent(m, call) == [kind |-> "start", id |-> m.id, call |-> call]
ResumeEvent(p) == [kind |-> "resume", id |-> p.id, call |-> p.call]

\* new module(...args): the instance, or the error the constructor throws
Construct(cls, id) ==
    IF cls.ctor \in Errors
    THEN [thrown |-> cls.ctor]
    ELSE [thrown |-> Ok, m |-> [id |-> id, entry |-> cls.entry]]

\* m.default(): the event it leaves, the continuation it schedules and the
\* error it throws to its caller
Default(m, call) ==
    [event |-> StartEvent(m, call),
     cont |-> IF m.entry = "async" THEN {[id |-> m.id, call |-> call]} ELSE {},
     thrown |-> IF m.entry \in Errors THEN m.entry ELSE Ok]

\* for (const m of this.modules) { m.default(); }  from index i on
RECURSIVE RunLoop(_, _, _, _, _)
RunLoopAwaiting(ms, i, lg, pd, call) ==
    IF i > Len(ms)
    THEN [log |-> lg, pending |-> pd, result |-> Ok]
    ELSE LET d == Default(ms[i], call)
             lg1 == Append(lg, d.event)
             lg2 == IF d.cont = {} THEN lg1
                    ELSE Append(lg1, ResumeEvent([id |-> ms[i].id, call |-> call]))
         IN IF d.thrown # Ok
            THEN [log |-> lg1, pending |-> pd, result |-> d.thrown]
            ELSE RunLoop(ms, i + 1, lg2, pd, call)

RunLoopTwice(ms, i, lg, pd, call) ==
    IF i > Len(ms)
    THEN [log |-> lg, pending |-> pd, result |-> Ok]
    ELSE LET d == Default(ms[i], call)
         IN IF d.thrown # Ok
            THEN [log |-> Append(lg, d.event), pending |-> pd, result |-> d.thrown]
            ELSE RunLoop(ms, i + 1, Append(Append(lg, d.event), d.event),
                         pd \cup d.cont, call)

RunLoopSwallow(ms, i, lg, pd, call) ==
    IF i > Len(ms)
    THEN [log |-> lg, pending |-> pd, result |-> Ok]
    ELSE LET d == Default(ms[i], call)
         IN RunLoop(ms, i + 1, Append(lg, d.event), pd \cup d.cont, call)

RunLoop(ms, i, lg, pd, call) ==
    IF i > Len(ms)
    THEN [log |-> lg, pending |-> pd, result |-> Ok]
    ELSE LET d == Default(ms[i], call)
         IN IF d.thrown # Ok
            THEN [log |-> Append(lg, d.event), pending |-> pd, result |-> d.thrown]
            ELSE RunLoop(ms, i + 1, Append(lg, d.event), pd \cup d.cont, call)

Record(op, cls, result) ==
    [op |-> op, cls |-> cls, result |-> result, call |-> nOps + 1,
     preModules |-> modules, preInit |-> initModules, preLog |-> log]

\* ---- Application ----------------------------------------------------------
AppInit ==
    /\ initModules = <<>>
    /\ modules = <<>>
    /\ nextId = 1
    /\ log = <<>>
    /\ pending = {}
    /\ runCount = 0
    /\ nOps = 0
    /\ last = [op |-> "none", cls |-> NoClass, result |-> Ok, call |-> 0,
               preModules |-> <<>>, preInit |-> <<>>, preLog |-> <<>>]

\* Application.use(module, ...args)
UseBodyUnshift(cls) ==
    LET c == Construct(cls, nextId)
    IN /\ last' = Record("use", cls, c.thrown)
       /\ IF c.thrown # Ok
          THEN UNCHANGED <<modules, nextId>>
          ELSE /\ modules' = <<c.m>> \o modules
               /\ nextId' = nextId + 1
       /\ UNCHANGED <<initModules, log, pending, runCount>>

UseBodyEager(cls) ==
    LET c == Construct(cls, nextId)
    IN IF c.thrown # Ok
       THEN /\ last' = Record("use", cls, c.thrown)
            /\ UNCHANGED <<initModules, modules, nextId, log, pending, runCount>>
       ELSE LET d == Default(c.m, nOps + 1)
            IN /\ modules' = Append(modules, c.m)
               /\ nextId' = nextId + 1
               /\ log' = Append(log, d.event)
               /\ pending' = pending \cup d.cont
               /\ last' = Record("use", cls, d.thrown)
               /\ UNCHANGED <<initModules, runCount>>

UseBody(cls) ==
    LET c == Construct(cls, nextId)
    IN /\ last' = Record("use", cls, c.thrown)
       /\ IF c.thrown # Ok
          THEN UNCHANGED <<modules, nextId>>
          ELSE /\ modules' = Append(modules, c.m)
               /\ nextId' = nextId + 1
       /\ UNCHANGED <<initModules, log, pending, runCount>>

Use ==
    /\ nOps < MaxOps
    /\ nOps' = nOps + 1
    /\ \E cls \in ModuleClasses : UseBody(cls)
    /\ UNCHANGED <<fileVars, ctlVars>>

\* Application.set(module, ...args)
SetBodyNoInvoke(cls) ==
    LET c == Construct(cls, nextId)
    IN /\ last' = Record("set", cls, c.thrown)
       /\ IF c.thrown # Ok
          THEN UNCHANGED <<initModules, nextId>>
          ELSE /\ initModules' = Append(initModules, c.m)
               /\ nextId' = nextId + 1
       /\ UNCHANGED <<modules, log, pending, runCount>>

SetBodyInvokeFirst(cls) ==
    LET c == Construct(cls, nextId)
    IN IF c.thrown # Ok
       THEN /\ last' = Record("set", cls, c.thrown)
            /\ UNCHANGED <<initModules, modules, nextId, log, pending, runCount>>
       ELSE LET d == Default(c.m, nOps + 1)
            IN /\ initModules' = IF d.thrown # Ok THEN initModules
                                 ELSE Append(initModules, c.m)
               /\ nextId' = nextId + 1
               /\ log' = Append(log, d.event)
               /\ pending' = pending \cup d.cont
               /\ last' = Record("set", cls, d.thrown)
               /\ UNCHANGED <<modules, runCount>>

SetBody(cls) ==
    LET c == Construct(cls, nextId)
    IN IF c.thrown # Ok
       THEN /\ last' = Record("set", cls, c.thrown)
            /\ UNCHANGED <<initModules, modules, nextId, log, pending, runCount>>
       ELSE LET d == Default(c.m, nOps + 1)
            IN /\ initModules' = Append(initModules, c.m)
               /\ nextId' = nextId + 1
               /\ log' = Append(log, d.event)
               /\ pending' = pending \cup d.cont
               /\ last' = Record("set", cls, d.thrown)
               /\ UNCHANGED <<modules, runCount>>

Set ==
    /\ nOps < MaxOps
    /\ nOps' = nOps + 1
    /\ \E cls \in ModuleClasses : SetBody(cls)
    /\ UNCHANGED <<fileVars, ctlVars>>

\* Application.run()
Run ==
    /\ nOps < MaxOps
    /\ nOps' = nOps + 1
    /\ LET r == RunLoop(modules, 1, log, pending, nOps + 1)
       IN /\ log' = r.log
          /\ pending' = r.pending
          /\ last' = Record("run", NoClass, r.result)
    /\ runCount' = runCount + 1
    /\ UNCHANGED <<initModules, modules, nextId>>
    /\ UNCHANGED <<fileVars, ctlVars>>

\* The event loop runs the continuation of one asynchronous entry point.
\* The container awaits nothing, so any pending continuation may be next.
Resume ==
    /\ \E p \in pending :
          /\ pending' = pending \ {p}
          /\ log' = Append(log, ResumeEvent(p))
    /\ UNCHANGED <<initModules, modules, nextId, runCount, nOps, last>>
    /\ UNCHANGED <<fileVars, ctlVars>>

\* ---- properties of the Application ----------------------------------------
IsStart(e) == e.kind = "start"
RegIds == Range(Ids(modules))
InitIds == Range(Ids(initModules))

\* the ids of the modules in S whose entry point was invoked, in log order
StartsOf(S) ==
    LET s == SelectSeq(log, LAMBDA e : IsStart(e) /\ e.id \in S)
    IN [i \in 1..Len(s) |-> s[i].id]

\* how often the entry point of module id was invoked (by call c)
Count(id) == Len(SelectSeq(log, LAMBDA e : IsStart(e) /\ e.id = id))
CountIn(id, c) ==
    Len(SelectSeq(log, LAMBDA e : IsStart(e) /\ e.id = id /\ e.call = c))

\* index of the first module of ms whose entry point throws, 0 if none
FirstThrowing(ms) ==
    IF \E k \in 1..Len(ms) : ms[k].entry \in Errors
    THEN CHOOSE k \in 1..Len(ms) :
            /\ ms[k].entry \in Errors
            /\ \A j \in 1..(k - 1) : ms[j].entry \notin Errors
    ELSE 0

\* C1: after use() calls followed by exactly one run() call that returned,
\* the entry points of the regular modules have been invoked exactly once
\* each, in the order in which use() registered them (instances are
\* numbered in the order of construction, which is the order of the calls).
C1_RunInvokesInRegistrationOrder ==
    (runCount = 1 /\ last.op = "run" /\ last.result = Ok) =>
        LET s == StartsOf(RegIds)
        IN /\ Len(s) = Len(modules)
           /\ Range(s) = RegIds
           /\ \A i, j \in 1..Len(s) : i < j => s[i] < s[j]

C1_Witness ==
    /\ runCount = 1 /\ last.op = "run" /\ last.result = Ok
    /\ Len(modules) >= 2
    /\ Len(initModules) >= 1

\* C2: as long as run() has not been called, no regular module's entry
\* point has been invoked, whatever use() and set() calls were made.
C2_UseNeverInvokes ==
    runCount = 0 => StartsOf(RegIds) = <<>>

C2_Witness ==
    /\ runCount = 0
    /\ Len(modules) >= 2
    /\ Len(initModules) >= 1
    /\ last.op = "use" /\ last.result = Ok

\* C3: when set() returns, the module it constructed is the last element of
\* initModules and its entry point has been invoked exactly once; the init
\* entry points have been invoked in the order of the set() calls (the order
\* in which the instances were constructed).
C3_SetInvokesOnRegistration ==
    /\ (last.op = "set" /\ last.result = Ok) =>
          /\ Len(initModules) = Len(last.preInit) + 1
          /\ SubSeq(initModules, 1, Len(last.preInit)) = last.preInit
          /\ Count(initModules[Len(initModules)].id) = 1
          /\ initModules[Len(initModules)].entry = last.cls.entry
    /\ StartsOf(InitIds) = Ids(initModules)
    /\ \A i, j \in 1..Len(initModules) :
          i < j => initModules[i].id < initModules[j].id

C3_Witness ==
    /\ last.op = "set" /\ last.result = Ok
    /\ Len(initModules) >= 2
    /\ Len(modules) >= 1

\* C4: every invocation of an init module's entry point precedes every
\* invocation of a regular module's entry point.
C4_InitBeforeRegular ==
    \A i, j \in 1..Len(log) :
        (/\ IsStart(log[i]) /\ log[i].id \in InitIds
         /\ IsStart(log[j]) /\ log[j].id \in RegIds) => i < j

\* C5 (as stated): over any sequence of calls, several run() calls included,
\* each regular module's entry point is invoked at most once.
C5_AtMostOnceEver ==
    \A id \in RegIds : Count(id) <= 1

\* C5 (amended): one run() call invokes each regular module's entry point at
\* most once, so a module is invoked at most as often as run() was called.
C5_AtMostOncePerRun ==
    \A id \in RegIds :
        /\ Count(id) <= runCount
        /\ \A c \in 1..nOps : CountIn(id, c) <= 1

C5_Witness ==
    /\ runCount = 2
    /\ \E id \in RegIds : Count(id) = 2

\* C6: an error thrown by a module constructor in use() or set(), or by a
\* synchronous entry point in set() or run(), is the outcome of that call,
\* unchanged.
C6_ErrorsPropagate ==
    /\ (last.op \in {"use", "set"} /\ last.cls.ctor \in Errors)
          => last.result = last.cls.ctor
    /\ (last.op = "set" /\ last.cls.ctor = Ok /\ last.cls.entry \in Errors)
          => last.result = last.cls.entry
    /\ (last.op = "run" /\ FirstThrowing(last.preModules) # 0)
          => last.result = last.preModules[FirstThrowing(last.preModules)].entry
    /\ (last.op = "use" /\ last.cls.ctor = Ok) => last.result = Ok

C6_Witness ==
    /\ last.op = "run"
    /\ last.result = "E2"
    /\ \E k \in 1..Len(modules) : modules[k].entry = "E1"

\* C9: the container awaits nothing.  A set() or run() call only starts
\* entry points: when it returns, the continuation of every asynchronous
\* entry point it invoked is still pending and no continuation has run
\* meanwhile.  So every entry point a run() call invokes has been started
\* before the continuation of any of them runs, in whatever order.
AsyncStarted(evs) ==
    {[id |-> evs[k].id, call |-> evs[k].call] :
        k \in {n \in 1..Len(evs) :
                 \E m \in Range(modules') \cup Range(initModules') :
                     m.id = evs[n].id /\ m.entry = "async"}}

C9_Step ==
    LET new == SubSeq(log', Len(log) + 1, Len(log'))
    IN /\ SubSeq(log', 1, Len(log)) = log
       /\ \A k \in 1..Len(new) : IsStart(new[k]) /\ new[k].call = nOps'
       /\ pending' = pending \cup AsyncStarted(new)
       /\ last'.op = "run" /\ last'.result = Ok => Len(new) = Len(modules)

C9_Order ==
    \A i, j \in 1..Len(log) :
        (/\ log[i].kind = "resume" /\ IsStart(log[j])
         /\ log[j].call = log[i].call) => j < i

C9_NeverAwaited == []C9_Order /\ [][nOps' # nOps => C9_Step]_vars

\* two asynchronous regular modules started by one run() call whose
\* continuations ran in the opposite order
C9_Witness ==
    \E i, j, k, l \in 1..Len(log) :
        /\ i < j /\ j < k /\ k < l
        /\ IsStart(log[i]) /\ IsStart(log[j])
        /\ log[i].call = log[j].call
        /\ log[i].id \in RegIds /\ log[j].id \in RegIds
        /\ log[k] = ResumeEvent(log[j])
        /\ log[l] = ResumeEvent(log[i])

\* C10: a call that throws leaves a defined state.  A throwing constructor
\* changes neither sequence and invokes nothing; an entry point throwing in
\* set() leaves the module appended; when the k-th regular module throws in
\* run(), modules 1..k were invoked once each by that call, in order, the
\* later ones were not, and neither sequence changed.
C10_Step ==
    LET l == last'
        new == SubSeq(log', Len(log) + 1, Len(log'))
    IN /\ (l.op \in {"use", "set"} /\ l.cls.ctor \in Errors) =>
             /\ modules' = modules /\ initModules' = initModules
             /\ log' = log /\ pending' = pending
       /\ (l.op = "set" /\ l.cls.ctor = Ok /\ l.result \in Errors) =>
             /\ Len(initModules') = Len(initModules) + 1
             /\ SubSeq(initModules', 1, Len(initModules)) = initModules
             /\ initModules'[Len(initModules')].entry = l.cls.entry
             /\ modules' = modules
       /\ (l.op = "run" /\ l.result \in Errors) =>
             LET k == FirstThrowing(modules)
             IN /\ k # 0
                /\ new = [i \in 1..k |-> StartEvent(modules[i], l.call)]
                /\ modules' = modules /\ initModules' = initModules

C10_PartialFailure == [][nOps' # nOps => C10_Step]_vars

C10_Witness ==
    /\ last.op = "run" /\ last.result \in Errors
    /\ FirstThrowing(modules) = 2
    /\ Len(modules) >= 3

\* ---- File serialisation ----------------------------------------------------
\* Field values are strings.  A File document's _id is an ObjectId, which
\* mongoose generates (FileSchema declares no _id path); a query that
\* projects _id away yields a document without one.
ObjectIds == {"oid1", "oid2", "oid3"}
Names == {"a.txt", "b.txt", "c.txt"}
Contents == {"buf1", "buf2"}
Dates == {"t1", "t2"}

Has(obj, f) == f \in DOMAIN obj

\* JavaScript truthiness of a (string-valued) field value
Truthy(v) == v # ""

Without(obj, f) == [g \in (DOMAIN obj) \ {f} |-> obj[g]]
With(obj, f, v) == [g \in (DOMAIN obj) \cup {f} |-> IF g = f THEN v ELSE obj[g]]

\* Utils.toPrettyObject(_, obj)
toPrettyObjectKeepsId(d, obj) ==
    IF Has(obj, "_id") /\ Truthy(obj["_id"])
    THEN With(obj, "id", obj["_id"])
    ELSE obj

toPrettyObject(d, obj) ==
    IF Has(obj, "_id") /\ Truthy(obj["_id"])
    THEN Without(With(obj, "id", obj["_id"]), "_id")
    ELSE obj

\* the stored fields of a File document (FileSchema, timestamps: true)
FileDocuments ==
    LET body == [name : Names, content : Contents, createdAt : Dates]
    IN body \cup {With(b, "_id", i) : b \in body, i \in ObjectIds}

FileInit == doc \in FileDocuments /\ out = <<>>

\* doc.toObject(): the schema's toObject.transform applied to the plain copy
ToObject ==
    /\ out' = <<"toObject", toPrettyObject(doc, doc)>>
    /\ UNCHANGED <<doc, appVars, ctlVars>>

\* doc.toJSON(): the schema's toJSON.transform applied to the plain copy
ToJSON ==
    /\ out' = <<"toJSON", toPrettyObject(doc, doc)>>
    /\ UNCHANGED <<doc, appVars, ctlVars>>

\* C7: a serialised File document has no _id field; when the document has
\* an _id, the result's id field equals it; every other field of the
\* document is in the result unchanged, and the result has no further field.
C7_SerialisationRenamesId ==
    out # <<>> =>
        LET o == out[2]
        IN /\ ~Has(o, "_id")
           /\ Has(doc, "_id") => (Has(o, "id") /\ o["id"] = doc["_id"])
           /\ \A f \in (DOMAIN doc) \ {"_id"} : Has(o, f) /\ o[f] = doc[f]
           /\ (DOMAIN o) \ {"id"} = (DOMAIN doc) \ {"_id"}
           /\ Has(o, "id") => Has(doc, "_id")

C7_Witness ==
    /\ out # <<>>
    /\ out[1] = "toJSON"
    /\ Has(doc, "_id") /\ doc["_id"] = "oid2"
    /\ out[2]["id"] = "oid2"

\* ---- BaseController -------------------------------------------------------
Paths == {<<>>, <<"">>, <<"/users">>, <<"/api">>}
Handlers == {"GET /", "POST /"}

\* this.path || "/"
PrefixOf(p) == IF p # <<>> /\ Truthy(p[1]) THEN p[1] ELSE "/"

\* new Router({ prefix })
NewRouter(prefix) == [prefix |-> prefix, routes |-> {}]

CtlInit == path \in Paths /\ routers = <<>> /\ built = 0 /\ nBuilds = 0

\* BaseController.build()
BuildBodyCached ==
    IF routers = <<>>
    THEN /\ routers' = Append(routers, NewRouter(PrefixOf(path)))
         /\ built' = 1
    ELSE /\ routers' = routers
         /\ built' = 1

BuildBody ==
    /\ routers' = Append(routers, NewRouter(PrefixOf(path)))
    /\ built' = Len(routers) + 1

Build ==
    /\ nBuilds < MaxRouters
    /\ nBuilds' = nBuilds + 1
    /\ BuildBody
    /\ UNCHANGED <<path, appVars, fileVars>>

\* a caller (a subclass's build(), as in the README) attaches a handler to
\* a routing object it obtained: router.get(...), router.post(...)
AddRoute ==
    /\ \E r \in 1..Len(routers), h \in Handlers :
          /\ h \notin routers[r].routes
          /\ routers' = [routers EXCEPT ![r].routes = @ \cup {h}]
    /\ UNCHANGED <<path, built, nBuilds, appVars, fileVars>>

\* C8 (as stated): every routing object's prefix is the controller's path,
\* or "/" when path is unset.
C8_PrefixIsPathOrRoot ==
    \A r \in 1..Len(routers) :
        routers[r].prefix = IF path = <<>> THEN "/" ELSE path[1]

\* C8 (amended): every build() call returns a new routing object, without
\* handlers and distinct from all earlier ones, which it leaves untouched;
\* its prefix is the controller's path, or "/" when path is unset or the
\* empty string.
C8_Prefix ==
    /\ Len(routers) = nBuilds
    /\ \A r \in 1..Len(routers) :
          routers[r].prefix =
              IF path = <<>> \/ path = <<"">> THEN "/" ELSE path[1]

C8_Step ==
    /\ built' \in 1..Len(routers')
    /\ built' \notin 1..Len(routers)
    /\ routers'[built'].routes = {}
    /\ SubSeq(routers', 1, Len(routers)) = routers

C8_BuildIsFresh == []C8_Prefix /\ [][nBuilds' # nBuilds => C8_Step]_vars

C8_Witness ==
    /\ path = <<"">>
    /\ Len(routers) >= 2
    /\ routers[1].routes = Handlers
    /\ routers[2].routes = {}
    /\ routers[1].prefix = routers[2].prefix

\* ---- specifications -------------------------------------------------------
FileIdle == doc = [name |-> "a.txt"] /\ out = <<>>
CtlIdle == path = <<>> /\ routers = <<>> /\ built = 0 /\ nBuilds = 0

\* the application container
Init == AppInit /\ FileIdle /\ CtlIdle
Next == Use \/ Set \/ Run \/ Resume
Spec == Init /\ [][Next]_vars

\* serialisation of File documents
InitFile == FileInit /\ AppInit /\ CtlIdle
NextFile == ToObject \/ ToJSON
SpecFile == InitFile /\ [][NextFile]_vars

\* a controller and the routing objects it builds
InitCtl == CtlInit /\ AppInit /\ FileIdle
NextCtl == Build \/ AddRoute
SpecCtl == InitCtl /\ [][NextCtl]_vars
====
